---- MODULE Spec2Model ----
(***************************************************************************)
(* Model of src/main.ts: the PCA9685 16-servo driver (namespace limits).   *)
(*                                                                         *)
(* The program state is the module-level flag PCA9685_init.  The only      *)
(* exported operation is servoWrite(Servo, degrees), which calls           *)
(* initialisation() when the flag is false.  Every call the code makes to  *)
(* a collaborator (pins.i2cWriteBuffer, pins.i2cWriteNumber,               *)
(* pins.i2cReadNumber, basic.showNumber, basic.pause) is appended to       *)
(* `trace`, in program order.                                              *)
(***************************************************************************)
EXTENDS Integers, Sequences, FiniteSets, TLC

(***************************************************************************)
(* Register address constants, main.ts lines 14-29.                        *)
(***************************************************************************)
CHIP_ADDRESS == 106
REG_MODE1 == 0
REG_MODE2 == 1
REG_SUB_ADR1 == 2
REG_SUB_ADR2 == 3
REG_SUB_ADR3 == 4
REG_ALL_CALL == 5
REG_SERVO1_REG_BASE == 6
REG_ALL_LED_ON_L == 250
REG_ALL_LED_ON_H == 251
REG_ALL_LED_OFF_L == 252
REG_ALL_LED_OFF_H == 253
REG_PRE_SCALE == 254
PWM_FREQUENCY == 30

\* The enum with Servo16 given the value of Servo15 (a copied line left unedited).
ServosEnum_Copied == <<8, 12, 16, 20, 24, 28, 32, 36, 40, 44, 48, 52, 56, 60, 64, 64>>

\* enum Servos, main.ts lines 42-59: ServosEnum[n] is the value of Servo<n>.
ServosEnum == <<8, 12, 16, 20, 24, 28, 32, 36, 40, 44, 48, 52, 56, 60, 64, 68>>
Servos == {ServosEnum[n] : n \in 1..Len(ServosEnum)}

\* enum PulseRange, main.ts lines 65-72: R500_2500uS = 1 ... R1000_2000uS = 6.
PulseRange == 1..6
\* The bounds each member's name carries: R<min>_<max>uS.
MinPulseUs(p) == 400 + 100 * p
MaxPulseUs(p) == 2600 - 100 * p

(***************************************************************************)
(* Bounds of the model and the inputs drawn by the actions.                *)
(***************************************************************************)
MaxFibers == 2      \* fibers that may call servoWrite
MaxFaults == 1      \* bus transactions that fail in one behaviour

Fibers == 1..MaxFibers
\* degrees arguments: in range, and the out-of-range values of the spec.
DegreesInputs == {-10, 0, 90, 180, 200}
\* bytes pins.i2cReadNumber may deliver for the pre-scaler read-back.
ReadBytes == {PWM_FREQUENCY, 0}
\* outcome of one bus transaction, as the transport reports it.
Statuses == {"ok", "fail"}

VARIABLES
    PCA9685_init,   \* main.ts line 39
    pc,             \* pc[f]: position of fiber f in servoWrite/initialisation
    Servo,          \* Servo[f]: argument of f's current call
    degrees,        \* degrees[f]: argument of f's current call
    data,           \* data[f]: local `data` of initialisation (line 133)
    trace,          \* collaborator calls made so far, in order
    start,          \* start[f]: Len(trace) when f's current call began (history, per call)
    readyAtCall     \* readyAtCall[f]: the flag when f's current call began (history, per call)

vars == <<PCA9685_init, pc, Servo, degrees, data, trace, start, readyAtCall>>

BusOps == {"i2cWriteBuffer", "i2cWriteNumber", "i2cReadNumber"}
IsBus(e) == e.op \in BusOps
NumFaults == Cardinality({i \in 1..Len(trace) : IsBus(trace[i]) /\ trace[i].status = "fail"})
\* the statuses the next bus transaction may end with
Outcomes == IF NumFaults < MaxFaults THEN Statuses ELSE {"ok"}

\* The four registers of channel n (1..16): on-low, on-high, off-low, off-high.
\* Servo<n> of the enum is the off-low register, REG_SERVO1_REG_BASE + 4*(n-1) + 2.
OnLow(n) == REG_SERVO1_REG_BASE + 4 * (n - 1)
OnHigh(n) == OnLow(n) + 1
OffLow(n) == OnLow(n) + 2
OffHigh(n) == OnLow(n) + 3
Channels == 1..Len(ServosEnum)
ChannelRegs == UNION {{OnLow(n), OnHigh(n), OffLow(n), OffHigh(n)} : n \in Channels}
OnRegs == {OnLow(n) : n \in Channels} \cup {OnHigh(n) : n \in Channels}
              \cup {REG_ALL_LED_ON_L, REG_ALL_LED_ON_H}
\* The registers initialisation programs once: the pre-scaler and the four broadcast ones.
InitOnceRegs == {REG_PRE_SCALE, REG_ALL_LED_ON_L, REG_ALL_LED_ON_H,
                 REG_ALL_LED_OFF_L, REG_ALL_LED_OFF_H}

IsRegWrite(e) == e.op = "i2cWriteBuffer"
IsWriteTo(e, reg) == IsRegWrite(e) /\ e.bytes[1] = reg
IsChannelWrite(e) == IsRegWrite(e) /\ e.bytes[1] \in ChannelRegs
WritesTo(reg) == {i \in 1..Len(trace) : IsWriteTo(trace[i], reg)}
\* What fiber f's current call has added to the trace.
CallIndexes(f) == {i \in (start[f] + 1)..Len(trace) : trace[i].fiber = f}
CallSegment(f) == SubSeq(trace, start[f] + 1, Len(trace))
\* The (register, value) payloads of the channel-specific writes of f's current call.
CallChannelWrites(f) == SelectSeq(CallSegment(f), IsChannelWrite)
CallChannelBytes(f) == [i \in 1..Len(CallChannelWrites(f)) |-> CallChannelWrites(f)[i].bytes]
InCall(f) == pc[f] # "idle"
Returned(f) == pc[f] = "ret"

\* buf[0] = reg; buf[1] = val; pins.i2cWriteBuffer(CHIP_ADDRESS, buf, false)
\* The status the transport returns is discarded by the caller.
WriteBuffer(f, reg, val, st) ==
    [op |-> "i2cWriteBuffer", fiber |-> f, addr |-> CHIP_ADDRESS,
     bytes |-> <<reg, val>>, status |-> st]

Init ==
    /\ PCA9685_init = FALSE
    /\ pc = [f \in Fibers |-> "idle"]
    /\ Servo = [f \in Fibers |-> ServosEnum[1]]
    /\ degrees = [f \in Fibers |-> 0]
    /\ data = [f \in Fibers |-> 0]
    /\ trace = <<>>
    /\ start = [f \in Fibers |-> 0]
    /\ readyAtCall = [f \in Fibers |-> FALSE]

\* One step of initialisation that writes a register and moves on.
InitWrite(f, at, reg, val, st, next) ==
    /\ pc[f] = at
    /\ trace' = Append(trace, WriteBuffer(f, reg, val, st))
    /\ pc' = [pc EXCEPT ![f] = next]
    /\ UNCHANGED <<PCA9685_init, Servo, degrees, data, start, readyAtCall>>

\* Cooperative scheduling: fiber f runs only while every other fiber is idle or
\* suspended inside basic.showNumber / basic.pause.
CanRun(f) == \A g \in Fibers \ {f} : pc[g] \in {"idle", "showing", "pausing"}

(***************************************************************************)
(* servoWrite, main.ts lines 165-193.                                      *)
(***************************************************************************)
\* Entry into servoWrite(s, d).
Enter(f, s, d) ==
    /\ pc[f] = "idle"
    /\ pc' = [pc EXCEPT ![f] = "test"]
    /\ Servo' = [Servo EXCEPT ![f] = s]
    /\ degrees' = [degrees EXCEPT ![f] = d]
    /\ start' = [start EXCEPT ![f] = Len(trace)]
    /\ readyAtCall' = [readyAtCall EXCEPT ![f] = PCA9685_init]
    /\ UNCHANGED <<PCA9685_init, data, trace>>

\* A call made while no other call is in progress.
servoWrite_call(f, s, d) ==
    /\ \A g \in Fibers : pc[g] = "idle"
    /\ Enter(f, s, d)

\* A call made by a fiber while the calls of the other fibers, if any, are suspended
\* in showNumber or pause.
servoWrite_callOverlap(f, s, d) ==
    /\ CanRun(f)
    /\ Enter(f, s, d)

\* servoWrite_test without the test of the flag: initialisation runs on every call.
servoWrite_test_Always(f) ==
    /\ pc[f] = "test"
    /\ CanRun(f)
    /\ pc' = [pc EXCEPT ![f] = "prescale"]
    /\ UNCHANGED <<PCA9685_init, Servo, degrees, data, trace, start, readyAtCall>>

\* line 166-168: if (PCA9685_init == false) { initialisation(); }
servoWrite_test(f) ==
    /\ pc[f] = "test"
    /\ CanRun(f)
    /\ pc' = [pc EXCEPT ![f] = IF PCA9685_init = FALSE THEN "prescale" ELSE "ret"]
    /\ UNCHANGED <<PCA9685_init, Servo, degrees, data, trace, start, readyAtCall>>

\* servoWrite_return that clears the flag, so that the next call initialises again.
servoWrite_return_ClearsFlag(f) ==
    /\ pc[f] = "ret"
    /\ CanRun(f)
    /\ pc' = [pc EXCEPT ![f] = "idle"]
    /\ PCA9685_init' = FALSE
    /\ Servo' = [Servo EXCEPT ![f] = ServosEnum[1]]
    /\ degrees' = [degrees EXCEPT ![f] = 0]
    /\ start' = [start EXCEPT ![f] = 0]
    /\ readyAtCall' = [readyAtCall EXCEPT ![f] = FALSE]
    /\ UNCHANGED <<data, trace>>

\* lines 169-193: the rest of the body is commented out; the function returns.
servoWrite_return(f) ==
    /\ pc[f] = "ret"
    /\ CanRun(f)
    /\ pc' = [pc EXCEPT ![f] = "idle"]
    /\ Servo' = [Servo EXCEPT ![f] = ServosEnum[1]]
    /\ degrees' = [degrees EXCEPT ![f] = 0]
    /\ start' = [start EXCEPT ![f] = 0]
    /\ readyAtCall' = [readyAtCall EXCEPT ![f] = FALSE]
    /\ UNCHANGED <<PCA9685_init, data, trace>>

(***************************************************************************)
(* initialisation, main.ts lines 128-152, and readReg, lines 111-114.      *)
(***************************************************************************)
\* init_prescale that wakes the chip first: it writes MODE1 where the pre-scaler
\* write belongs.
init_prescale_ModeFirst(f, st) ==
    CanRun(f) /\ InitWrite(f, "prescale", REG_MODE1, 1, st, "rr_write")

\* lines 129-132
init_prescale(f, st) ==
    CanRun(f) /\ InitWrite(f, "prescale", REG_PRE_SCALE, PWM_FREQUENCY, st, "rr_write")

\* readReg_write with the arguments of pins.i2cWriteNumber exchanged: the register
\* is taken for the device address.
readReg_write_Swapped(f, st) ==
    /\ pc[f] = "rr_write"
    /\ CanRun(f)
    /\ trace' = Append(trace, [op |-> "i2cWriteNumber", fiber |-> f, addr |-> REG_PRE_SCALE,
                               bytes |-> <<CHIP_ADDRESS>>, status |-> st])
    /\ pc' = [pc EXCEPT ![f] = "rr_read"]
    /\ UNCHANGED <<PCA9685_init, Servo, degrees, data, start, readyAtCall>>

\* line 112: pins.i2cWriteNumber(addr, reg, NumberFormat.UInt8LE)
readReg_write(f, st) ==
    /\ pc[f] = "rr_write"
    /\ CanRun(f)
    /\ trace' = Append(trace, [op |-> "i2cWriteNumber", fiber |-> f, addr |-> CHIP_ADDRESS,
                               bytes |-> <<REG_PRE_SCALE>>, status |-> st])
    /\ pc' = [pc EXCEPT ![f] = "rr_read"]
    /\ UNCHANGED <<PCA9685_init, Servo, degrees, data, start, readyAtCall>>

\* line 113 and line 133: data = pins.i2cReadNumber(addr, NumberFormat.UInt8LE)
readReg_read(f, v, st) ==
    /\ pc[f] = "rr_read"
    /\ CanRun(f)
    /\ trace' = Append(trace, [op |-> "i2cReadNumber", fiber |-> f, addr |-> CHIP_ADDRESS,
                               bytes |-> <<v>>, status |-> st])
    /\ data' = [data EXCEPT ![f] = v]
    /\ pc' = [pc EXCEPT ![f] = "show"]
    /\ UNCHANGED <<PCA9685_init, Servo, degrees, start, readyAtCall>>

\* line 134: basic.showNumber(data) is called; the fiber is suspended in it.
init_show(f) ==
    /\ pc[f] = "show"
    /\ CanRun(f)
    /\ trace' = Append(trace, [op |-> "showNumber", fiber |-> f, value |-> data[f]])
    /\ pc' = [pc EXCEPT ![f] = "showing"]
    /\ UNCHANGED <<PCA9685_init, Servo, degrees, data, start, readyAtCall>>

\* init_shown that acts on the value read back: when it is not the value written,
\* initialisation goes back to the pre-scaler write.
init_shown_Retry(f) ==
    /\ pc[f] = "showing"
    /\ CanRun(f)
    /\ pc' = [pc EXCEPT ![f] = IF data[f] = PWM_FREQUENCY THEN "on_l" ELSE "prescale"]
    /\ UNCHANGED <<PCA9685_init, Servo, degrees, data, trace, start, readyAtCall>>

\* line 134: basic.showNumber returns.
init_shown(f) ==
    /\ pc[f] = "showing"
    /\ CanRun(f)
    /\ pc' = [pc EXCEPT ![f] = "on_l"]
    /\ UNCHANGED <<PCA9685_init, Servo, degrees, data, trace, start, readyAtCall>>

\* lines 135-137
init_on_l(f, st) ==
    CanRun(f) /\ InitWrite(f, "on_l", REG_ALL_LED_ON_L, 0, st, "on_h")

\* init_on_h with the full-on bit (0x10) of the ON high byte set.
init_on_h_FullOn(f, st) ==
    CanRun(f) /\ InitWrite(f, "on_h", REG_ALL_LED_ON_H, 16, st, "off_l")

\* lines 138-140
init_on_h(f, st) ==
    CanRun(f) /\ InitWrite(f, "on_h", REG_ALL_LED_ON_H, 0, st, "off_l")

\* lines 141-143: buf[1] = 0x23
init_off_l(f, st) ==
    CanRun(f) /\ InitWrite(f, "off_l", REG_ALL_LED_OFF_L, 35, st, "off_h")

\* lines 144-146: buf[1] = 0x01
init_off_h(f, st) ==
    CanRun(f) /\ InitWrite(f, "off_h", REG_ALL_LED_OFF_H, 1, st, "mode1")

\* init_mode1 with the assignment of line 151 moved up to the MODE1 write.
init_mode1_SetsFlag(f, st) ==
    /\ CanRun(f)
    /\ pc[f] = "mode1"
    /\ trace' = Append(trace, WriteBuffer(f, REG_MODE1, 1, st))
    /\ pc' = [pc EXCEPT ![f] = "pause"]
    /\ PCA9685_init' = TRUE
    /\ UNCHANGED <<Servo, degrees, data, start, readyAtCall>>

\* init_mode1 that leaves the sleep bit (0x10) set.
init_mode1_Sleep(f, st) ==
    CanRun(f) /\ InitWrite(f, "mode1", REG_MODE1, 17, st, "pause")

\* lines 147-149: buf[1] = 0x01
init_mode1(f, st) ==
    CanRun(f) /\ InitWrite(f, "mode1", REG_MODE1, 1, st, "pause")

\* init_pause with the assignment of line 151 made before the pause, not after it.
init_pause_SetsFlag(f) ==
    /\ pc[f] = "pause"
    /\ CanRun(f)
    /\ trace' = Append(trace, [op |-> "pause", fiber |-> f, value |-> 10])
    /\ pc' = [pc EXCEPT ![f] = "pausing"]
    /\ PCA9685_init' = TRUE
    /\ UNCHANGED <<Servo, degrees, data, start, readyAtCall>>

\* line 150: basic.pause(10) is called; the fiber is suspended in it.
init_pause(f) ==
    /\ pc[f] = "pause"
    /\ CanRun(f)
    /\ trace' = Append(trace, [op |-> "pause", fiber |-> f, value |-> 10])
    /\ pc' = [pc EXCEPT ![f] = "pausing"]
    /\ UNCHANGED <<PCA9685_init, Servo, degrees, data, start, readyAtCall>>

\* line 150: basic.pause returns.
init_paused(f) ==
    /\ pc[f] = "pausing"
    /\ CanRun(f)
    /\ pc' = [pc EXCEPT ![f] = "set_flag"]
    /\ UNCHANGED <<PCA9685_init, Servo, degrees, data, trace, start, readyAtCall>>

\* init_flag that forgets the assignment of line 151.
init_flag_NotSet(f) ==
    /\ pc[f] = "set_flag"
    /\ CanRun(f)
    /\ data' = [data EXCEPT ![f] = 0]
    /\ pc' = [pc EXCEPT ![f] = "ret"]
    /\ UNCHANGED <<PCA9685_init, Servo, degrees, trace, start, readyAtCall>>

\* lines 151-152: PCA9685_init = true; initialisation returns into servoWrite.
init_flag(f) ==
    /\ pc[f] = "set_flag"
    /\ CanRun(f)
    /\ PCA9685_init' = TRUE
    /\ data' = [data EXCEPT ![f] = 0]
    /\ pc' = [pc EXCEPT ![f] = "ret"]
    /\ UNCHANGED <<Servo, degrees, trace, start, readyAtCall>>

\* The steps of a call that is in progress.
Step(f) ==
    \/ servoWrite_test(f)
    \/ \E st \in Outcomes : init_prescale(f, st)
    \/ \E st \in Outcomes : readReg_write(f, st)
    \/ \E v \in ReadBytes, st \in Outcomes : readReg_read(f, v, st)
    \/ init_show(f)
    \/ init_shown(f)
    \/ \E st \in Outcomes : init_on_l(f, st)
    \/ \E st \in Outcomes : init_on_h(f, st)
    \/ \E st \in Outcomes : init_off_l(f, st)
    \/ \E st \in Outcomes : init_off_h(f, st)
    \/ \E st \in Outcomes : init_mode1(f, st)
    \/ init_pause(f)
    \/ init_paused(f)
    \/ init_flag(f)
    \/ servoWrite_return(f)

\* Calls executed one after another (the spec's single-threaded model).
Next ==
    \/ \E f \in Fibers, s \in Servos, d \in DegreesInputs : servoWrite_call(f, s, d)
    \/ \E f \in Fibers : Step(f)

Spec == Init /\ [][Next]_vars

\* Calls of several fibers, interleaved at the suspension points.  The arguments are
\* drawn from the first and the last channel and the centre angle.
NextOverlap ==
    \/ \E f \in Fibers, s \in {ServosEnum[1], ServosEnum[Len(ServosEnum)]}, d \in {90} :
          servoWrite_callOverlap(f, s, d)
    \/ \E f \in Fibers : Step(f)

SpecOverlap == Init /\ [][NextOverlap]_vars

(***************************************************************************)
(* The claims.                                                             *)
(***************************************************************************)

\* C1: for calls executed one after another the initialisation sequence runs
\* exactly once, in the first call: the pre-scaler write and the four broadcast
\* writes are each in the trace at most once, exactly once as soon as a call has
\* returned or the flag is set, all of them before any channel-specific write;
\* and a call that began with the flag set adds nothing to the trace.
C1_InitialisationOnce ==
    /\ \A r \in InitOnceRegs : Cardinality(WritesTo(r)) <= 1
    /\ (PCA9685_init \/ \E f \in Fibers : Returned(f)) =>
          \A r \in InitOnceRegs : Cardinality(WritesTo(r)) = 1
    /\ \A i \in 1..Len(trace) : IsChannelWrite(trace[i]) =>
          \A r \in InitOnceRegs : \E j \in 1..(i - 1) : IsWriteTo(trace[j], r)
    /\ \A f \in Fibers : (InCall(f) /\ readyAtCall[f]) =>
          /\ CallSegment(f) = <<>>
          /\ pc[f] \in {"test", "ret"}

\* A second call, made when the flag was already set, has returned.
C1_Witness ==
    \E f \in Fibers : Returned(f) /\ readyAtCall[f] /\ WritesTo(REG_PRE_SCALE) # {}

\* C2: no channel-specific write is in the trace while the flag is false; a call
\* that arrives with the flag false runs the whole initialisation sequence (all six
\* register writes, then the settle pause) before it returns; and every call
\* returns with the flag true.
C2_ReadyBeforeChannelWrite ==
    /\ ~PCA9685_init => \A i \in 1..Len(trace) : ~IsChannelWrite(trace[i])
    /\ \A f \in Fibers : Returned(f) => PCA9685_init
    /\ \A f \in Fibers : (Returned(f) /\ ~readyAtCall[f]) =>
          /\ \A r \in InitOnceRegs \cup {REG_MODE1} :
                \E i \in CallIndexes(f) : IsWriteTo(trace[i], r)
          /\ trace[Len(trace)].op = "pause"

\* A call that arrived with the flag false has returned.
C2_Witness ==
    \E f \in Fibers : Returned(f) /\ ~readyAtCall[f] /\ PCA9685_init

\* C3: every servoWrite(channel, angle) call issues exactly two channel-specific
\* writes: the low byte of a 12-bit count to the channel's off-low register and the
\* high byte to its off-high register.
C3_TwoChannelWrites ==
    \A f \in Fibers : Returned(f) =>
        /\ Len(CallChannelBytes(f)) = 2
        /\ \E raw \in 0..4095 :
              CallChannelBytes(f) = <<<<Servo[f], raw % 256>>, <<Servo[f] + 1, raw \div 256>>>>

\* C4: the only writes that touch ON registers are broadcast writes of 0x00; both are
\* in the trace once the flag is set; a call that began with the flag set writes no
\* ON register, and a channel write of a call targets only the off-low/off-high
\* pair of the requested channel.
C4_OnRegistersStayZero ==
    /\ \A i \in 1..Len(trace) : (IsRegWrite(trace[i]) /\ trace[i].bytes[1] \in OnRegs) =>
          /\ trace[i].bytes[1] \in {REG_ALL_LED_ON_L, REG_ALL_LED_ON_H}
          /\ trace[i].bytes[2] = 0
    /\ PCA9685_init =>
          /\ WritesTo(REG_ALL_LED_ON_L) # {}
          /\ WritesTo(REG_ALL_LED_ON_H) # {}
    /\ \A f \in Fibers : InCall(f) =>
          \A i \in CallIndexes(f) :
              /\ readyAtCall[f] => ~(IsRegWrite(trace[i]) /\ trace[i].bytes[1] \in OnRegs)
              /\ IsChannelWrite(trace[i]) => trace[i].bytes[1] \in {Servo[f], Servo[f] + 1}

\* After initialisation, a later call on any channel has returned.
C4_Witness ==
    \E f \in Fibers :
        /\ Returned(f) /\ readyAtCall[f]
        /\ \E i \in WritesTo(REG_ALL_LED_ON_L), j \in WritesTo(REG_ALL_LED_ON_H) : i < j

\* What the specification expects a channel write to carry: the angle clamped to
\* [0,180], the pulse interpolated between the profile's bounds, and the count
\* floor(pulseUs * 4096 / 20000), split into (off-low, low byte), (off-high, high byte).
ClampAngle(a) == IF a < 0 THEN 0 ELSE IF a > 180 THEN 180 ELSE a
ExpectedCount(a, p) ==
    ((MinPulseUs(p) * 180 + a * (MaxPulseUs(p) - MinPulseUs(p))) * 4096) \div (180 * 20000)
ExpectedBytes(s, raw) == <<<<s, raw % 256>>, <<s + 1, raw \div 256>>>>

\* C5: servoWrite(Servo1, 90) under the 500-2500 us profile yields the count
\* floor(1500 * 4096 / 20000) = 307 and writes 0x33 to Servo1's off-low register and
\* 0x01 to its off-high register.
C5_Servo1At90 ==
    \A f \in Fibers : (Returned(f) /\ Servo[f] = ServosEnum[1] /\ degrees[f] = 90) =>
        /\ ExpectedCount(90, 1) = 307
        /\ CallChannelBytes(f) = <<<<OffLow(1), 51>>, <<OffHigh(1), 1>>>>

C7_EndpointCounts ==
    /\ (MinPulseUs(6) * 4096) \div 20000 = 204
    /\ (MaxPulseUs(6) * 4096) \div 20000 = 409
    /\ \A f \in Fibers : (Returned(f) /\ degrees[f] \in {0, 180}) =>
          \E p \in PulseRange :
              CallChannelBytes(f) =
                  ExpectedBytes(Servo[f],
                      ((IF degrees[f] = 0 THEN MinPulseUs(p) ELSE MaxPulseUs(p)) * 4096) \div 20000)

\* C8: a pulse profile is recorded per channel and is the one the angle writes on
\* that channel use: the bytes a call writes are those of the requested angle under
\* a profile of PulseRange.
C8_ProfileUsedByWrites ==
    \A f \in Fibers : Returned(f) =>
        \E p \in PulseRange :
            /\ MinPulseUs(p) < MaxPulseUs(p)
            /\ CallChannelBytes(f) =
                   ExpectedBytes(Servo[f], ExpectedCount(ClampAngle(degrees[f]), p))

\* C9: when a register write of the initialisation run by a call fails, the call
\* issues no later register write and does not set the flag.
C9_FailureStopsInitialisation ==
    \A f \in Fibers : InCall(f) =>
        \A i \in CallIndexes(f) : (IsRegWrite(trace[i]) /\ trace[i].status = "fail") =>
            /\ \A j \in CallIndexes(f) : j > i => ~IsRegWrite(trace[j])
            /\ ~readyAtCall[f] => ~PCA9685_init

\* C10: the flag is false at startup and never goes from true back to false, so it
\* changes at most once (false to true); it changes only where initialisation
\* assigns it (line 151).
C10_FlagSetOnce ==
    /\ PCA9685_init = FALSE
    /\ [][/\ PCA9685_init => PCA9685_init'
          /\ PCA9685_init' # PCA9685_init =>
                \E f \in Fibers : pc[f] = "set_flag" /\ pc'[f] = "ret"]_vars

\* The flag has been set by a completed initialisation and a call made after that
\* is testing it (line 166).
C10_Witness ==
    /\ PCA9685_init
    /\ \E f \in Fibers : pc[f] = "test" /\ readyAtCall[f] /\ trace[Len(trace)].op = "pause"

\* C11: the channel-to-register mapping is total and injective: Servo<n> (n in 1..16)
\* is the off-low address 0x08 + 4*(n-1), the off-high address is one above it, no
\* two channels share an off-low or off-high address, no channel address is a mode,
\* sub-address, all-call, pre-scaler or broadcast (0xFA-0xFE) register address, and
\* the channel argument of every call is one of these sixteen addresses.
C11_ChannelMapInjective ==
    /\ Len(ServosEnum) = 16
    /\ \A n \in 1..16 : ServosEnum[n] = 8 + 4 * (n - 1) /\ ServosEnum[n] = OffLow(n)
    /\ \A m, n \in 1..16 : m # n =>
          {ServosEnum[m], ServosEnum[m] + 1} \cap {ServosEnum[n], ServosEnum[n] + 1} = {}
    /\ \A n \in 1..16 :
          {ServosEnum[n], ServosEnum[n] + 1} \cap
              ({REG_MODE1, REG_MODE2, REG_SUB_ADR1, REG_SUB_ADR2, REG_SUB_ADR3, REG_ALL_CALL,
                REG_PRE_SCALE} \cup (250..254)) = {}
    /\ \A f \in Fibers : InCall(f) =>
          Cardinality({n \in 1..16 : ServosEnum[n] = Servo[f]}) = 1

\* A call on the last channel, Servo16 (0x44), is in progress.
C11_Witness ==
    \E f \in Fibers : InCall(f) /\ Servo[f] = 68 /\ Servo[f] = ServosEnum[16]

\* What an entry of the trace is, without its values: the operation and, for a
\* write, the register it addresses.
Shape(e) ==
    IF e.op \in {"i2cWriteBuffer", "i2cWriteNumber"} THEN <<e.op, e.bytes[1]>> ELSE <<e.op>>
NotDisplay(e) == e.op # "showNumber"
\* The bus operations and the delay of fiber f's current call, in order.
CallBusShapes(f) ==
    LET seg == SelectSeq(CallSegment(f), NotDisplay)
    IN  [i \in 1..Len(seg) |-> Shape(seg[i])]
IsPrefix(a, b) == Len(a) <= Len(b) /\ a = SubSeq(b, 1, Len(a))
\* The order the specification gives: pre-scaler write, read-back (register pointer
\* write, read), ALL_LED_ON_L, ALL_LED_ON_H, ALL_LED_OFF_L, ALL_LED_OFF_H, MODE1, delay.
InitOrder ==
    << <<"i2cWriteBuffer", 254>>, <<"i2cWriteNumber", 254>>, <<"i2cReadNumber">>,
       <<"i2cWriteBuffer", 250>>, <<"i2cWriteBuffer", 251>>,
       <<"i2cWriteBuffer", 252>>, <<"i2cWriteBuffer", 253>>,
       <<"i2cWriteBuffer", 0>>, <<"pause">> >>

\* C12: the initialisation a call runs issues its bus operations and the delay in
\* the order of InitOrder and nothing else: at every point of the call what it has
\* issued is a prefix of InitOrder, the flag is still false until the whole of it
\* has been issued, and the call sets the flag and returns with exactly InitOrder.
C12_InitialisationOrder ==
    \A f \in Fibers : (InCall(f) /\ ~readyAtCall[f]) =>
        /\ IsPrefix(CallBusShapes(f), InitOrder)
        /\ CallBusShapes(f) # InitOrder => ~PCA9685_init
        /\ pc[f] \in {"set_flag", "ret"} => CallBusShapes(f) = InitOrder
        /\ Returned(f) => PCA9685_init

\* The first call has issued the whole sequence and has set the flag.
C12_Witness ==
    \E f \in Fibers :
        /\ Returned(f) /\ ~readyAtCall[f] /\ PCA9685_init
        /\ Len(CallBusShapes(f)) = 9

\* C13: initialisation writes the count 307 (0x133) to the broadcast off registers:
\* 0x33 to ALL_LED_OFF_L and 0x01 to ALL_LED_OFF_H, so (off-high << 8) | off-low = 307.
C13_BroadcastOffCount ==
    /\ \A i \in WritesTo(REG_ALL_LED_OFF_L) : trace[i].bytes[2] = 51
    /\ \A i \in WritesTo(REG_ALL_LED_OFF_H) : trace[i].bytes[2] = 1
    /\ \A i \in WritesTo(REG_ALL_LED_OFF_L), j \in WritesTo(REG_ALL_LED_OFF_H) :
          trace[j].bytes[2] * 256 + trace[i].bytes[2] = 307

\* C14: the pre-scaler value initialisation writes is the one for 50 Hz with the
\* 25 MHz oscillator and 4096 counts per frame, round(25000000 / (4096 * 50)) - 1 = 121.
C14_PrescalerFor50Hz ==
    /\ (2 * 25000000 + 4096 * 50) \div (2 * 4096 * 50) - 1 = 121
    /\ \A i \in WritesTo(REG_PRE_SCALE) :
          trace[i].bytes[2] = (2 * 25000000 + 4096 * 50) \div (2 * 4096 * 50) - 1

\* C15: the value written to MODE1 has the sleep bit (0x10) clear and the all-call
\* bit (0x01) set, and the MODE1 write is the last register write of the
\* initialisation a call runs, after all four broadcast register writes.
C15_Mode1NormalAllCall ==
    /\ \A i \in WritesTo(REG_MODE1) :
          /\ (trace[i].bytes[2] \div 16) % 2 = 0
          /\ trace[i].bytes[2] % 2 = 1
    /\ \A f \in Fibers : InCall(f) =>
          \A i \in CallIndexes(f) : IsWriteTo(trace[i], REG_MODE1) =>
              /\ \A j \in CallIndexes(f) : j > i => ~IsRegWrite(trace[j])
              /\ \A r \in {REG_ALL_LED_ON_L, REG_ALL_LED_ON_H,
                           REG_ALL_LED_OFF_L, REG_ALL_LED_OFF_H} :
                    \E j \in CallIndexes(f) : j < i /\ IsWriteTo(trace[j], r)
    /\ \A f \in Fibers : (Returned(f) /\ ~readyAtCall[f]) =>
          \E i \in CallIndexes(f) : IsWriteTo(trace[i], REG_MODE1)

\* The MODE1 write of the first call is in the trace and the call has gone on to return.
C15_Witness ==
    \E f \in Fibers :
        /\ Returned(f) /\ ~readyAtCall[f]
        /\ \E i \in CallIndexes(f) : trace[i].op = "i2cWriteBuffer" /\ trace[i].bytes = <<0, 1>>

\* The (register, value) payloads of the register writes of fiber f's current call.
CallRegBytes(f) ==
    LET seg == SelectSeq(CallSegment(f), IsRegWrite)
    IN  [i \in 1..Len(seg) |-> seg[i].bytes]
\* The register writes of initialisation as the code issues them (lines 129-149).
InitRegBytes == << <<254, 30>>, <<250, 0>>, <<251, 0>>, <<252, 35>>, <<253, 1>>, <<0, 1>> >>

\* C16: the pre-scaler read-back is observational.  Whatever byte the read-back
\* returns, and whether it fails or not, the register writes of the call (addresses
\* and values) are the one sequence InitRegBytes, followed by the one pause of 10 ms
\* and the flag set; the value read goes to the display call and nowhere else.
C16_ReadBackObservational ==
    \A f \in Fibers : (InCall(f) /\ ~readyAtCall[f]) =>
        /\ IsPrefix(CallRegBytes(f), InitRegBytes)
        /\ \A i \in CallIndexes(f) :
              /\ trace[i].op = "pause" => trace[i].value = 10 /\ CallRegBytes(f) = InitRegBytes
              /\ trace[i].op = "showNumber" =>
                    /\ trace[i - 1].op = "i2cReadNumber"
                    /\ trace[i].value = trace[i - 1].bytes[1]
        /\ Returned(f) =>
              /\ CallRegBytes(f) = InitRegBytes
              /\ Cardinality({i \in CallIndexes(f) : trace[i].op = "pause"}) = 1
              /\ PCA9685_init

\* An initialisation whose read-back failed and returned a byte other than the one
\* written has completed.
C16_Witness ==
    \E f \in Fibers :
        /\ Returned(f) /\ ~readyAtCall[f]
        /\ \E i \in CallIndexes(f) :
              /\ trace[i].op = "i2cReadNumber"
              /\ trace[i].status = "fail"
              /\ trace[i].bytes[1] # PWM_FREQUENCY

\* C17: the flag is true only after the MODE1 write and the settle pause have both
\* completed: when it is true the trace holds a MODE1 write followed by a pause of
\* the same fiber, and no fiber is at the MODE1 write, about to pause or in the pause.
C17_ReadyAfterSettle ==
    PCA9685_init =>
        /\ \E g \in Fibers : \E i, j \in 1..Len(trace) :
              /\ i < j
              /\ trace[i].fiber = g /\ IsWriteTo(trace[i], REG_MODE1)
              /\ trace[j].fiber = g /\ trace[j].op = "pause"
              /\ pc[g] # "pausing"
        /\ \A f \in Fibers : pc[f] \notin {"mode1", "pause", "pausing"}

\* Initialisation has just assigned the flag, after its pause returned.
C17_Witness ==
    /\ PCA9685_init
    /\ \E f \in Fibers : Returned(f) /\ ~readyAtCall[f]
    /\ Len(trace) >= 2
    /\ IsWriteTo(trace[Len(trace) - 1], REG_MODE1)
    /\ trace[Len(trace)].op = "pause"

\* C18: every bus transaction (register write, register-pointer write, read) targets
\* the device address 0x6A, and every register write carries two bytes, the register
\* address and the value.
C18_FixedDeviceAddress ==
    \A i \in 1..Len(trace) : IsBus(trace[i]) =>
        /\ trace[i].addr = 106
        /\ IsRegWrite(trace[i]) =>
              /\ Len(trace[i].bytes) = 2
              /\ trace[i].bytes[1] \in 0..255
              /\ trace[i].bytes[2] \in 0..255

\* All three kinds of bus transaction have been issued.
C18_Witness ==
    /\ \E i \in 1..Len(trace) : trace[i].op = "i2cWriteBuffer"
    /\ \E i \in 1..Len(trace) : trace[i].op = "i2cWriteNumber"
    /\ \E i \in 1..Len(trace) : trace[i].op = "i2cReadNumber"

\* The bus operations and the delay fiber g has issued, over the whole trace.
BusShapesOf(g) ==
    LET mine == SelectSeq(trace, LAMBDA e : e.fiber = g /\ NotDisplay(e))
    IN  [i \in 1..Len(mine) |-> Shape(mine[i])]

\* C19: with calls that overlap (a call starting while another is suspended inside
\* initialisation), every call returns with the flag true and only after some call
\* has issued the whole initialisation sequence and its settle pause has returned;
\* a channel-specific write, if any, comes after a pause.
C19_OverlapOrderedAfterInit ==
    /\ \A f \in Fibers : Returned(f) =>
          /\ PCA9685_init
          /\ \E g \in Fibers : BusShapesOf(g) = InitOrder /\ pc[g] # "pausing"
    /\ \A i \in 1..Len(trace) : IsChannelWrite(trace[i]) =>
          \E j \in 1..(i - 1) : trace[j].op = "pause"

\* A call that began while another call was inside initialisation, the flag still
\* false, has returned.
C19_Witness ==
    \E f \in Fibers :
        /\ Returned(f) /\ ~readyAtCall[f] /\ start[f] > 0
        /\ \E g \in Fibers \ {f} : trace[start[f]].fiber = g

====
